---- MODULE Spec2Model ----
(***************************************************************************)
(* RiskyPathEnv (gym_minigrid/envs/risky.py): construction, grid           *)
(* generation and the step/reward state machine.                           *)
(***************************************************************************)
EXTENDS Integers, Sequences, FiniteSets, TLC

VARIABLES
    constructed,      \* TRUE iff __init__ returned an environment
    width, height,    \* room dimensions
    agent_start_pos,  \* self.agent_start_pos
    goal_positions,   \* self.goal_positions
    lava_positions,   \* self.lava_positions
    spiky_positions,  \* self.spiky_positions
    reward_spec,      \* self.reward_spec
    max_steps,        \* self.max_steps
    slip_proba,       \* self.slip_proba, in hundredths
    grid,             \* self.grid: position -> tile type
    agent_pos,        \* self.agent_pos
    agent_dir,        \* self.agent_dir
    step_count,       \* self.step_count
    action,           \* argument of the last step call (None before any)
    fwd_cell,         \* local fwd_cell of the last step call
    status,           \* how the last step call ended
    reward,           \* reward returned by the last step call
    done,             \* done returned by the last step call
    total,            \* sum of the rewards returned since reset
    calls,            \* number of step calls since reset
    twin              \* a second environment built from the same arguments
                      \* except slip_proba, given the same calls

cfgvars == <<constructed, width, height, agent_start_pos, goal_positions,
             lava_positions, spiky_positions, reward_spec, max_steps,
             slip_proba>>

vars == <<constructed, width, height, agent_start_pos, goal_positions,
          lava_positions, spiky_positions, reward_spec, max_steps,
          slip_proba, grid, agent_pos, agent_dir, step_count,
          action, fwd_cell, status, reward, done, total, calls, twin>>

----------------------------------------------------------------------------
(* Bounds of the model *)

MaxWidth == 8
MaxHeight == 8
MaxCalls == 3
MaxAction == 4

----------------------------------------------------------------------------
(* Reward specification keys and defaults *)

STEP_PENALTY == "step_penalty"
GOAL_REWARD == "goal_reward"
ABSORBING_STATES == "absorbing_states"
ABSORBING_REWARD_GOAL == "absorbing_reward_goal"
ABSORBING_REWARD_LAVA == "absorbing_reward_lava"
RISKY_TILE_REWARD == "risky_tile_reward"
LAVA_REWARD == "lava_reward"

\* False is the integer 0 and True the integer 1, as in Python
DEFAULT_REWARDS ==
    (STEP_PENALTY :> 0) @@ (GOAL_REWARD :> 1) @@ (ABSORBING_STATES :> 0) @@
    (ABSORBING_REWARD_GOAL :> 0) @@ (RISKY_TILE_REWARD :> 0) @@
    (LAVA_REWARD :> -1)

\* RiskyPathEnv.Actions
west == 0
north == 1
east == 2
south == 3
Actions == {west, north, east, south}

\* defaults of the constructor's parameters
DefaultWidth == 11
DefaultHeight == 11
DefaultStartPos == <<2, 9>>
DefaultGoalPositions == << <<1, 3>> >>
DefaultMaxSteps == 150
DefaultSlipProba == 0

\* an optional argument: None, or Some(value)
None == {}
Some(v) == {v}
Get(o) == CHOOSE v \in o : TRUE

InSeq(x, s) == \E i \in DOMAIN s : s[i] = x

----------------------------------------------------------------------------
(* The grid collaborator *)

Cells(w, h) == (0 .. w - 1) \X (0 .. h - 1)

InGrid(p, w, h) == p[1] >= 0 /\ p[1] < w /\ p[2] >= 0 /\ p[2] < h

\* Grid(width, height) followed by wall_rect(0, 0, width, height)
WallRect(w, h) ==
    [p \in Cells(w, h) |->
        IF p[1] = 0 \/ p[1] = w - 1 \/ p[2] = 0 \/ p[2] = h - 1
        THEN "wall" ELSE "empty"]

\* put_obj for every position of a list, in list order; Grid.set rejects a
\* position outside the grid
RECURSIVE PutAll(_, _, _, _, _)
PutAll(g, ok, s, kind, wh) ==
    IF s = <<>> \/ ~ok THEN [ok |-> ok, grid |-> g]
    ELSE IF ~InGrid(Head(s), wh[1], wh[2])
         THEN [ok |-> FALSE, grid |-> g]
         ELSE PutAll([g EXCEPT ![Head(s)] = kind], TRUE, Tail(s), kind, wh)

\* WorldObj.can_overlap for the type of a cell
CanOverlap(kind) == kind \in {"goal", "lava", "spiky_floor"}

\* minigrid.DIR_TO_VEC
DIR_TO_VEC == <<  <<1, 0>>, <<0, 1>>, <<-1, 0>>, <<0, -1>> >>

\* MiniGridEnv.front_pos
FrontPos(pos, dir) ==
    <<pos[1] + DIR_TO_VEC[dir + 1][1], pos[2] + DIR_TO_VEC[dir + 1][2]>>

----------------------------------------------------------------------------
(* RiskyPathEnv.__init__ *)

DefaultLavaPositions(h) ==
    [i \in 1 .. (h - 2) |-> <<1, i>>]
    \o [i \in 1 .. 5 |-> <<3, h - 2 - i>>]
    \o << <<6, h - 5>>, <<6, h - 6>> >>

DefaultSpikyPositions(h) == [i \in 1 .. (h - 3) |-> <<2, i>>]

TempLavaPositions(lp, h) ==
    IF lp = None THEN DefaultLavaPositions(h) ELSE Get(lp)

TempSpikyPositions(kp, h) ==
    IF kp = None THEN DefaultSpikyPositions(h) ELSE Get(kp)

\* variant: a reward specification may hold further keys
SanityChecksMoreKeys(w, h, sp, gp, lp, rs, slip) ==
    /\ w >= 6 /\ h >= 6
    /\ DOMAIN DEFAULT_REWARDS \subseteq DOMAIN rs
    /\ slip >= 0 /\ slip < 100
    /\ sp[1] > 1 /\ sp[1] < w - 1
    /\ sp[2] > 1 /\ sp[2] < h - 1
    /\ ~InSeq(sp, gp)
    /\ ~InSeq(sp, TempLavaPositions(lp, h))

\* the assertions of the constructor
SanityChecks(w, h, sp, gp, lp, rs, slip) ==
    /\ w >= 6 /\ h >= 6
    /\ DOMAIN rs = DOMAIN DEFAULT_REWARDS
    /\ slip >= 0 /\ slip < 100
    /\ sp[1] > 1 /\ sp[1] < w - 1
    /\ sp[2] > 1 /\ sp[2] < h - 1
    /\ ~InSeq(sp, gp)
    /\ ~InSeq(sp, TempLavaPositions(lp, h))

\* variant: the goals are placed first
GenGridGoalFirst(w, h, gp, lava, spiky) ==
    LET g0 == WallRect(w, h)
        r1 == PutAll(g0, TRUE, gp, "goal", <<w, h>>)
        r2 == PutAll(r1.grid, r1.ok, lava, "lava", <<w, h>>)
        r3 == PutAll(r2.grid, r2.ok, spiky, "spiky_floor", <<w, h>>)
    IN  r3

\* _gen_grid: walls, then lava, then spiky tiles, then goals
GenGrid(w, h, gp, lava, spiky) ==
    LET g0 == WallRect(w, h)
        r1 == PutAll(g0, TRUE, lava, "lava", <<w, h>>)
        r2 == PutAll(r1.grid, r1.ok, spiky, "spiky_floor", <<w, h>>)
        r3 == PutAll(r2.grid, r2.ok, gp, "goal", <<w, h>>)
    IN  r3

\* the part of the state that reset() sets up
ResetState(g, sp) ==
    /\ grid' = g
    /\ agent_pos' = sp
    /\ agent_dir' = 3
    /\ step_count' = 0
    /\ action' = None
    /\ fwd_cell' = "none"
    /\ status' = "none"
    /\ reward' = 0
    /\ done' = FALSE
    /\ total' = 0
    /\ calls' = 0
    /\ twin' = [twin EXCEPT !.agent_pos = sp, !.agent_dir = 3,
                            !.step_count = 0, !.status = "none",
                            !.reward = 0, !.done = FALSE]

Construct(w, h, sp, gp, lp, kp, rs, ms, slip, slip2) ==
    LET lava == TempLavaPositions(lp, h)
        spiky == TempSpikyPositions(kp, h)
        checks == SanityChecks(w, h, sp, gp, lp, rs, slip)
        gen == GenGrid(w, h, gp, lava, spiky)
        ok == checks /\ gen.ok
    IN  /\ constructed = ok
        /\ width = w
        /\ height = h
        /\ agent_start_pos = sp
        /\ goal_positions = gp
        /\ lava_positions = lava
        /\ spiky_positions = spiky
        /\ reward_spec = rs
        /\ max_steps = ms
        /\ slip_proba = slip
        /\ grid = IF ok THEN gen.grid ELSE <<>>
        /\ agent_pos = sp
        /\ agent_dir = 3
        /\ step_count = 0
        /\ action = None
        /\ fwd_cell = "none"
        /\ status = "none"
        /\ reward = 0
        /\ done = FALSE
        /\ total = 0
        /\ calls = 0
        /\ twin = [slip_proba |-> slip2, agent_pos |-> sp, agent_dir |-> 3,
                   step_count |-> 0, status |-> "none", reward |-> 0,
                   done |-> FALSE]

----------------------------------------------------------------------------
(* RiskyPathEnv.step *)

\* variant: north turns the agent west
NewDirNorthIsWest(a) ==
    CASE a = west -> 2
      [] a = north -> 2
      [] a = east -> 0
      [] a = south -> 1

\* variant: east and west exchanged
NewDirMirrored(a) ==
    CASE a = west -> 0
      [] a = north -> 3
      [] a = east -> 2
      [] a = south -> 1

\* the heading chosen by a recognized action
NewDir(a) ==
    CASE a = west -> 2
      [] a = north -> 3
      [] a = east -> 0
      [] a = south -> 1

\* variant: the agent always moves
MoveToAlways(pos, fwd_pos, cell) == fwd_pos

\* variant: the agent moves onto empty cells only
MoveToEmptyOnly(pos, fwd_pos, cell) ==
    IF cell = "empty" THEN fwd_pos ELSE pos

\* the agent moves onto the forward cell if it is empty or can be overlapped
MoveTo(pos, fwd_pos, cell) ==
    IF cell = "empty" \/ CanOverlap(cell) THEN fwd_pos ELSE pos

\* one reward clause: what it adds, whether it ends the episode, and whether
\* it read a key that the reward specification does not have
Clause(dn, key, rs) ==
    IF key \in DOMAIN rs
    THEN [err |-> FALSE, add |-> rs[key], done |-> dn]
    ELSE [err |-> TRUE, add |-> 0, done |-> FALSE]

NoClause == [err |-> FALSE, add |-> 0, done |-> FALSE]

\* variant: the goal adds its reward but does not end the episode
GoalClauseNoDone(cell, rs) ==
    IF cell = "goal"
    THEN IF rs[ABSORBING_STATES] # 0
         THEN Clause(FALSE, ABSORBING_REWARD_GOAL, rs)
         ELSE Clause(FALSE, GOAL_REWARD, rs)
    ELSE NoClause

GoalClause(cell, rs) ==
    IF cell = "goal"
    THEN IF rs[ABSORBING_STATES] # 0
         THEN Clause(FALSE, ABSORBING_REWARD_GOAL, rs)
         ELSE Clause(TRUE, GOAL_REWARD, rs)
    ELSE NoClause

LavaClause(cell, rs) ==
    IF cell = "lava"
    THEN IF rs[ABSORBING_STATES] # 0
         THEN Clause(FALSE, ABSORBING_REWARD_LAVA, rs)
         ELSE Clause(TRUE, LAVA_REWARD, rs)
    ELSE NoClause

\* variant: the spiky tile pays the lava reward
SpikyClauseLavaReward(cell, rs) ==
    IF cell = "spiky_floor"
    THEN Clause(FALSE, LAVA_REWARD, rs)
    ELSE NoClause

SpikyClause(cell, rs) ==
    IF cell = "spiky_floor"
    THEN Clause(FALSE, RISKY_TILE_REWARD, rs)
    ELSE NoClause

\* the three clauses in program order; the first failing read ends the call
TileClauses(cell, rs) ==
    LET g == GoalClause(cell, rs)
        l == LavaClause(cell, rs)
        s == SpikyClause(cell, rs)
    IN  [err |-> g.err \/ l.err \/ s.err,
         add |-> g.add + l.add + s.add,
         done |-> g.done \/ l.done \/ s.done]

\* variant: the horizon ends the episode only at the exact step
HorizonExact(sc, ms) == sc = ms

\* the horizon check that finishes the step
Horizon(sc, ms) == sc >= ms

\* the environment a call works on
Self == [agent_pos |-> agent_pos, agent_dir |-> agent_dir,
         step_count |-> step_count, slip_proba |-> slip_proba]

TwinSelf == [agent_pos |-> twin.agent_pos, agent_dir |-> twin.agent_dir,
             step_count |-> twin.step_count, slip_proba |-> twin.slip_proba]

\* variant: the step count stops at the horizon
StepCountSaturating(sc, a) == IF sc >= max_steps THEN sc ELSE sc + 1

\* variant: the step count is incremented once the action is recognized
StepCountAfterValid(sc, a) == IF a \in Actions THEN sc + 1 ELSE sc

\* the step count after a call: incremented before the action is looked at
StepCountAfter(sc, a) == sc + 1

\* a call that raises before the forward cell is read
Raised(self, d) ==
    [dir |-> d, pos |-> self.agent_pos, cell |-> "none", reward |-> 0,
     done |-> FALSE, status |-> "AssertionError"]

\* the step once the new heading d is set
StepFrom(self, d) ==
    LET sc == self.step_count + 1
        f == FrontPos(self.agent_pos, d)
    IN  IF ~InGrid(f, width, height)
        THEN Raised(self, d)
        ELSE
          LET c == grid[f]
              p == MoveTo(self.agent_pos, f, c)
              t == TileClauses(c, reward_spec)
          IN  IF t.err
              THEN [dir |-> d, pos |-> p, cell |-> c, reward |-> 0,
                    done |-> FALSE, status |-> "KeyError"]
              ELSE [dir |-> d, pos |-> p, cell |-> c,
                    reward |-> reward_spec[STEP_PENALTY] + t.add,
                    done |-> t.done \/ Horizon(sc, max_steps),
                    status |-> "ok"]

\* variant: an unrecognized action keeps the heading and the step goes on
StepOnUnknownKeepsHeading(self, a) ==
    StepFrom(self, IF a \in Actions THEN NewDir(a) ELSE self.agent_dir)

\* variant: with a positive slip_proba the agent slips to the next heading
StepOnSlipping(self, a) ==
    IF a \notin Actions
    THEN Raised(self, self.agent_dir)
    ELSE IF self.slip_proba > 0
         THEN StepFrom(self, (NewDir(a) + 1) % 4)
         ELSE StepFrom(self, NewDir(a))

\* what a call step(a) does to an environment and what it returns
StepOn(self, a) ==
    IF a \notin Actions
    THEN Raised(self, self.agent_dir)
    ELSE StepFrom(self, NewDir(a))

StepResult(a) == StepOn(Self, a)

Step(a) ==
    /\ constructed
    /\ LET r == StepResult(a)
           r2 == StepOn(TwinSelf, a)
       IN  /\ step_count' = StepCountAfter(step_count, a)
           /\ agent_dir' = r.dir
           /\ agent_pos' = r.pos
           /\ action' = Some(a)
           /\ fwd_cell' = r.cell
           /\ status' = r.status
           /\ reward' = r.reward
           /\ done' = r.done
           /\ total' = IF r.status = "ok" THEN total + r.reward ELSE total
           /\ calls' = calls + 1
           /\ twin' = [twin EXCEPT
                         !.step_count = StepCountAfter(twin.step_count, a),
                         !.agent_dir = r2.dir, !.agent_pos = r2.pos,
                         !.status = r2.status, !.reward = r2.reward,
                         !.done = r2.done]
    /\ UNCHANGED <<grid>>
    /\ UNCHANGED cfgvars

\* MiniGridEnv.reset: generate the grid again and start a new episode
Reset ==
    /\ constructed
    /\ step_count > 0
    /\ ResetState(GenGrid(width, height, goal_positions, lava_positions,
                          spiky_positions).grid, agent_start_pos)
    /\ UNCHANGED cfgvars

----------------------------------------------------------------------------
(* Constructor arguments explored *)

Widths == 6 .. MaxWidth
Heights == 6 .. MaxHeight
StartChoices == { <<2, 4>>, <<4, 3>>, <<4, 1>>, <<1, 2>>, <<3, 3>>, <<0, 3>> }
CustomGoalPositions == << <<4, 2>>, <<3, 2>> >>
CustomLavaPositions == << <<3, 2>>, <<3, 3>>, <<5, 4>> >>
CustomSpikyPositions == << <<3, 3>>, <<4, 4>>, <<3, 2>> >>

\* goal, lava and spiky position arguments: all defaults, all supplied (and
\* overlapping), and supplied lava with the other defaults
LayoutChoices ==
    { <<DefaultGoalPositions, None, None>>,
      <<CustomGoalPositions, Some(CustomLavaPositions),
        Some(CustomSpikyPositions)>>,
      <<DefaultGoalPositions, Some(CustomLavaPositions), None>> }
MaxStepChoices == {1, 3}

CustomRewards ==
    (STEP_PENALTY :> -1) @@ (GOAL_REWARD :> 20) @@ (ABSORBING_STATES :> 0) @@
    (ABSORBING_REWARD_GOAL :> 7) @@ (RISKY_TILE_REWARD :> -3) @@
    (LAVA_REWARD :> -10)

AbsorbingRewards == [CustomRewards EXCEPT ![ABSORBING_STATES] = 1]

\* reward specifications whose keys are not those of DEFAULT_REWARDS
MissingRiskyRewards ==
    [k \in DOMAIN CustomRewards \ {RISKY_TILE_REWARD} |-> CustomRewards[k]]

SevenKeyRewards == CustomRewards @@ (ABSORBING_REWARD_LAVA :> -6)

BonusKeyRewards == DEFAULT_REWARDS @@ ("bonus" :> 5)

RewardChoices ==
    { DEFAULT_REWARDS, CustomRewards, AbsorbingRewards,
      MissingRiskyRewards, SevenKeyRewards, BonusKeyRewards }

\* slip_proba of the environment and of its twin
SlipChoices == { <<0, 50>>, <<100, 0>> }

Init ==
    \E w \in Widths, h \in Heights, sp \in StartChoices,
       lay \in LayoutChoices, rs \in RewardChoices, ms \in MaxStepChoices,
       sl \in SlipChoices :
        Construct(w, h, sp, lay[1], lay[2], lay[3], rs, ms, sl[1], sl[2])

Next ==
    \/ \E a \in 0 .. MaxAction : step_count < MaxCalls /\ Step(a)
    \/ Reset

Spec == Init /\ [][Next]_vars

\* environments of the largest room that differ from their twin in slip_proba
SlipValues == {0, 50, 99}

InitSlip ==
    \E sp \in { <<2, 4>>, <<4, 3>> }, lay \in LayoutChoices,
       rs \in { CustomRewards, AbsorbingRewards }, ms \in MaxStepChoices,
       sl \in { q \in SlipValues \X SlipValues : q[1] # q[2] } :
        Construct(MaxWidth, MaxHeight, sp, lay[1], lay[2], lay[3], rs, ms,
                  sl[1], sl[2])

SpecSlip == InitSlip /\ [][Next]_vars

\* the default environment (RiskyPathV1), driven north only
InitDefault ==
    Construct(DefaultWidth, DefaultHeight, DefaultStartPos,
              DefaultGoalPositions, None, None, DEFAULT_REWARDS,
              DefaultMaxSteps, DefaultSlipProba, DefaultSlipProba)

\* MaxCalls further calls after the horizon
NextNorth == step_count < max_steps + MaxCalls /\ Step(north)

SpecNorth == InitDefault /\ [][NextNorth]_vars

TypeOK ==
    /\ constructed \in BOOLEAN
    /\ constructed =>
        /\ agent_pos \in Cells(width, height)
        /\ agent_dir \in 0 .. 3
        /\ step_count \in 0 .. (max_steps + MaxCalls)
        /\ status \in {"none", "ok", "KeyError", "AssertionError"}
        /\ done \in BOOLEAN

----------------------------------------------------------------------------
(* Properties *)

\* a valid step call has just been made
ValidCall == constructed /\ action # None /\ action \subseteq Actions

\* this transition is a step call with a recognized action
IsValidStep ==
    /\ constructed /\ step_count' = step_count + 1
    /\ action' # None /\ action' \subseteq Actions

Absorbing == reward_spec[ABSORBING_STATES] # 0

\* the cell one unit from the old position along the new heading
Ahead ==
    CASE agent_dir' = 0 -> <<agent_pos[1] + 1, agent_pos[2]>>
      [] agent_dir' = 1 -> <<agent_pos[1], agent_pos[2] + 1>>
      [] agent_dir' = 2 -> <<agent_pos[1] - 1, agent_pos[2]>>
      [] agent_dir' = 3 -> <<agent_pos[1], agent_pos[2] - 1>>

AheadKind == IF InGrid(Ahead, width, height) THEN grid[Ahead] ELSE "outside"

Abs(n) == IF n < 0 THEN -n ELSE n

Moved == Abs(agent_pos'[1] - agent_pos[1]) + Abs(agent_pos'[2] - agent_pos[2])

C2_NonAbsorbingTerminal ==
    (ValidCall /\ ~Absorbing /\ fwd_cell \in {"goal", "lava"}) =>
        /\ status = "ok"
        /\ done
        /\ fwd_cell = "goal" =>
             reward = reward_spec[STEP_PENALTY] + reward_spec[GOAL_REWARD]
        /\ fwd_cell = "lava" =>
             reward = reward_spec[STEP_PENALTY] + reward_spec[LAVA_REWARD]

C2_Witness ==
    /\ ValidCall /\ reward_spec = CustomRewards
    /\ fwd_cell = "goal" /\ status = "ok" /\ done /\ reward = 19
    /\ step_count < max_steps

\* C3: in absorbing mode a step whose forward cell is a goal returns reward =
\* step_penalty + absorbing_reward_goal, a step whose forward cell is lava
\* returns reward = step_penalty + absorbing_reward_lava, and both return
\* done = TRUE only when the step count has reached max_steps.
C3_AbsorbingRewards ==
    (ValidCall /\ Absorbing /\ fwd_cell \in {"goal", "lava"}) =>
        /\ status = "ok"
        /\ done <=> step_count >= max_steps
        /\ fwd_cell = "goal" =>
             reward = reward_spec[STEP_PENALTY]
                      + reward_spec[ABSORBING_REWARD_GOAL]
        /\ fwd_cell = "lava" =>
             /\ ABSORBING_REWARD_LAVA \in DOMAIN reward_spec
             /\ reward = reward_spec[STEP_PENALTY]
                         + reward_spec[ABSORBING_REWARD_LAVA]

\* C4: no step call with an action in {west, north, east, south} fails in an
\* environment that construction accepted.
C4_NoStepFails == ValidCall => status = "ok"

\* C5: every successful step returns step_penalty plus the one contribution
\* of the forward cell's kind: goal_reward or absorbing_reward_goal for goal,
\* lava_reward or absorbing_reward_lava for lava, risky_tile_reward for the
\* spiky floor, and 0 for an empty cell or a wall.
C5_RewardIsPenaltyPlusTile ==
    (ValidCall /\ status = "ok") =>
        CASE fwd_cell = "goal" ->
               reward = reward_spec[STEP_PENALTY]
                        + (IF Absorbing THEN reward_spec[ABSORBING_REWARD_GOAL]
                           ELSE reward_spec[GOAL_REWARD])
          [] fwd_cell = "lava" ->
               IF Absorbing
               THEN /\ ABSORBING_REWARD_LAVA \in DOMAIN reward_spec
                    /\ reward = reward_spec[STEP_PENALTY]
                                + reward_spec[ABSORBING_REWARD_LAVA]
               ELSE reward = reward_spec[STEP_PENALTY]
                             + reward_spec[LAVA_REWARD]
          [] fwd_cell = "spiky_floor" ->
               reward = reward_spec[STEP_PENALTY]
                        + reward_spec[RISKY_TILE_REWARD]
          [] fwd_cell \in {"empty", "wall"} ->
               reward = reward_spec[STEP_PENALTY]
          [] OTHER -> FALSE

C5_Witness ==
    /\ ValidCall /\ status = "ok" /\ reward_spec = CustomRewards
    /\ fwd_cell = "spiky_floor" /\ reward = -4

\* C6: with the default lava and spiky position sets the agent is always
\* strictly inside the wall border, and its forward cell is inside the grid.
C6_AgentInsideBorder ==
    (/\ constructed
     /\ lava_positions = DefaultLavaPositions(height)
     /\ spiky_positions = DefaultSpikyPositions(height)) =>
        /\ 1 <= agent_pos[1] /\ agent_pos[1] <= width - 2
        /\ 1 <= agent_pos[2] /\ agent_pos[2] <= height - 2
        /\ InGrid(FrontPos(agent_pos, agent_dir), width, height)

\* C7 (as stated): in the default environment driven north, the step that
\* returns done = TRUE has reached the goal tile, the rewards sum to 1 and the
\* step count is the number of actions taken.
C7_NorthReachesGoal ==
    (status = "ok" /\ done) =>
        fwd_cell = "goal" /\ total = 1 /\ step_count = calls

\* C7 (amended): in the default environment driven north, the agent walks up
\* the column x = 2 to (2, 1) and stays there, never reaching the goal; every
\* reward is 0, done = TRUE is returned exactly from step max_steps = 150 on,
\* and the step count is the number of actions taken.
C7_NorthReachesHorizon ==
    /\ constructed
    /\ step_count = calls
    /\ agent_pos = <<2, IF step_count < 8 THEN 9 - step_count ELSE 1>>
    /\ fwd_cell # "goal"
    /\ status \in {"none", "ok"}
    /\ total = 0
    /\ done <=> step_count >= DefaultMaxSteps

C7_Witness ==
    /\ status = "ok" /\ done /\ step_count = DefaultMaxSteps
    /\ calls = DefaultMaxSteps /\ agent_pos = <<2, 1>> /\ fwd_cell = "wall"

\* C8: a step whose forward cell, after the heading update, is a wall leaves
\* the agent position unchanged.
C8_WallBlocks ==
    [][(IsValidStep /\ AheadKind = "wall") => agent_pos' = agent_pos]_vars

C8_Witness ==
    ValidCall /\ status = "ok" /\ fwd_cell = "wall" /\ agent_dir = 0

\* C9: a step whose forward cell is empty, goal, lava or spiky floor puts the
\* agent on that cell, one unit along the new heading, and no step moves the
\* agent by more than one cell, also after the episode has ended.
C9_MovesOneCell ==
    [][IsValidStep =>
         /\ AheadKind \in {"empty", "goal", "lava", "spiky_floor"}
              => agent_pos' = Ahead
         /\ Moved <= 1]_vars

C9_Witness ==
    /\ ValidCall /\ status = "ok" /\ step_count > max_steps
    /\ fwd_cell = "lava" /\ grid[agent_pos] = "lava"

\* C10: a step with a valid action sets the heading from the action alone
\* (west -> 2, north -> 3, east -> 0, south -> 1), blocked or not; the heading
\* is always one of 0..3, and it is 3 right after grid generation.
C10_HeadingFromAction ==
    constructed =>
        /\ agent_dir \in 0 .. 3
        /\ action = None => agent_dir = 3
        /\ action = Some(0) => agent_dir = 2
        /\ action = Some(1) => agent_dir = 3
        /\ action = Some(2) => agent_dir = 0
        /\ action = Some(3) => agent_dir = 1

C10_Witness ==
    ValidCall /\ action = Some(3) /\ agent_dir = 1 /\ fwd_cell = "wall"

\* C11: every step whose step count, after the increment, has reached
\* max_steps returns done = TRUE, whatever the forward cell and in both modes.
C11_HorizonEndsEpisode ==
    (ValidCall /\ step_count >= max_steps) => (status = "ok" /\ done)

\* a step call, with any argument, happens in this transition
IsCall == constructed /\ calls' = calls + 1

\* C12: every step call increases the step count by exactly one, the step
\* count never decreases within an episode, and after n calls since reset it
\* is n.
C12_StepCountCountsCalls ==
    [][/\ IsCall => step_count' = step_count + 1
       /\ step_count' < step_count => calls' = 0
       /\ constructed => step_count' = calls']_vars

C12_Witness ==
    /\ constructed /\ calls = 3 /\ step_count = 3
    /\ status = "AssertionError" /\ step_count > max_steps

\* C13: after grid generation a coordinate holds a goal if it is in the goal
\* list, else a spiky tile if it is in the spiky list, else lava if it is in
\* the lava list (the last tile written wins), else the wall ring or nothing;
\* overlapping lists are accepted.
C13_LastWriteWins ==
    constructed =>
        \A p \in Cells(width, height) :
            grid[p] =
                IF InSeq(p, goal_positions) THEN "goal"
                ELSE IF InSeq(p, spiky_positions) THEN "spiky_floor"
                ELSE IF InSeq(p, lava_positions) THEN "lava"
                ELSE IF \/ p[1] \in {0, width - 1}
                        \/ p[2] \in {0, height - 1} THEN "wall"
                ELSE "empty"

C13_Witness ==
    /\ constructed
    /\ InSeq(<<3, 2>>, lava_positions) /\ InSeq(<<3, 2>>, spiky_positions)
    /\ InSeq(<<3, 2>>, goal_positions) /\ grid[<<3, 2>>] = "goal"
    /\ InSeq(<<3, 3>>, lava_positions) /\ InSeq(<<3, 3>>, spiky_positions)
    /\ grid[<<3, 3>>] = "spiky_floor"
    /\ grid[<<5, 4>>] = "lava"

\* the arguments other than the start position pass the constructor
OtherArgsOK ==
    /\ width >= 6 /\ height >= 6
    /\ slip_proba >= 0 /\ slip_proba < 100
    /\ GenGrid(width, height, goal_positions, lava_positions,
               spiky_positions).ok

StartArgOK ==
    /\ agent_start_pos[1] > 1 /\ agent_start_pos[1] < width - 1
    /\ agent_start_pos[2] > 1 /\ agent_start_pos[2] < height - 1
    /\ ~InSeq(agent_start_pos, goal_positions)
    /\ ~InSeq(agent_start_pos, lava_positions)

SixKeys ==
    {"step_penalty", "goal_reward", "absorbing_states",
     "absorbing_reward_goal", "risky_tile_reward", "lava_reward"}

SevenKeys == SixKeys \cup {"absorbing_reward_lava"}

\* C14: construction fails whenever the keys of the reward specification are
\* not exactly the required keys, by a missing key or by an extra one.
C14_KeysMustMatch == (DOMAIN reward_spec # SixKeys) => ~constructed

C14_Witness ==
    /\ ~constructed /\ OtherArgsOK /\ StartArgOK
    /\ DOMAIN reward_spec = SixKeys \ {"risky_tile_reward"}

\* C15: the required keys are the seven keys step_penalty, goal_reward,
\* absorbing_states, absorbing_reward_goal, absorbing_reward_lava,
\* risky_tile_reward and lava_reward: a specification with exactly these keys
\* is accepted, and one without absorbing_reward_lava is rejected.
C15_SevenKeysRequired ==
    /\ (DOMAIN reward_spec = SevenKeys /\ OtherArgsOK /\ StartArgOK)
         => constructed
    /\ ABSORBING_REWARD_LAVA \notin DOMAIN reward_spec => ~constructed

\* C16: the start position is accepted if and only if it is strictly inside
\* the wall border and in neither the goal list nor the lava list.
C16_StartInsideBorder ==
    (OtherArgsOK /\ DOMAIN reward_spec = SixKeys) =>
        (constructed <=>
            /\ 1 <= agent_start_pos[1] /\ agent_start_pos[1] <= width - 2
            /\ 1 <= agent_start_pos[2] /\ agent_start_pos[2] <= height - 2
            /\ ~InSeq(agent_start_pos, goal_positions)
            /\ ~InSeq(agent_start_pos, lava_positions))

\* a step call with an unrecognized action has just been made
UnknownCall == constructed /\ action # None /\ ~(action \subseteq Actions)

\* C17: a step call whose action is not one of 0..3 fails with an error and
\* returns no result.
C17_UnknownActionFails ==
    UnknownCall => (status = "AssertionError" /\ fwd_cell = "none")

C17_Witness ==
    UnknownCall /\ action = Some(4) /\ status = "AssertionError"

\* the default lava and spiky lists are in use
DefaultLists ==
    /\ width >= 6 /\ height >= 6
    /\ lava_positions = DefaultLavaPositions(height)
    /\ spiky_positions = DefaultSpikyPositions(height)

Interior(p) ==
    1 <= p[1] /\ p[1] <= width - 2 /\ 1 <= p[2] /\ p[2] <= height - 2

\* C18: in an environment built with width, height >= 6 and the default lava
\* and spiky lists, both lists hold only coordinates strictly inside the
\* border, and after grid generation every border cell is a wall.
C18_DefaultsInsideBorder ==
    (constructed /\ DefaultLists) =>
        /\ \A i \in DOMAIN lava_positions : Interior(lava_positions[i])
        /\ \A i \in DOMAIN spiky_positions : Interior(spiky_positions[i])
        /\ \A p \in Cells(width, height) : ~Interior(p) => grid[p] = "wall"

\* this transition is a step call with an unrecognized action
IsUnknownStep == IsCall /\ ~(action' \subseteq Actions)

\* C19 (as stated): a step call that fails on an unrecognized action leaves
\* agent position, heading and step count as they were.
C19_FailedCallChangesNothing ==
    [][IsUnknownStep =>
         /\ agent_pos' = agent_pos
         /\ agent_dir' = agent_dir
         /\ step_count' = step_count]_vars

\* C19 (amended): a step call that fails on an unrecognized action leaves
\* agent position, heading and grid as they were, and has incremented the
\* step count by one.
C19_FailedCallCountsAsStep ==
    [][IsUnknownStep =>
         /\ status' = "AssertionError"
         /\ agent_pos' = agent_pos
         /\ agent_dir' = agent_dir
         /\ grid' = grid
         /\ step_count' = step_count + 1]_vars

C19_Witness ==
    /\ UnknownCall /\ status = "AssertionError" /\ step_count = 2
    /\ agent_pos # agent_start_pos /\ agent_dir # 3

====
